---- MODULE Spec2Model ----
(***************************************************************************)
(* Model of the article harvesting script (backendTaskPhaseOne/scraper.js) *)
(* and of the article enhancement script (nodeScriptPhaseTwo/index.js).    *)
(*                                                                         *)
(* Three specifications share the variables:                               *)
(*   Spec         the enhancement batch: main and processOneArticle        *)
(*   SpecSearch   searchGoogleForArticle applied to bounded API responses  *)
(*   SpecHarvest  the harvest: scrapeArticles and scrapeWithPuppeteer      *)
(***************************************************************************)
EXTENDS Integers, Sequences, FiniteSets, TLC

\* ------------------------------------------------------------------ bounds

\* Longest batch of original articles the persistence service returns.
MaxArticles == 2

\* Longest items list of a search-API response.
MaxItems == 3

\* ------------------------------------------------------- JavaScript values

\* A string that is a URL, kept as the parts the code's string tests read.
Str(scheme, host, path) ==
    [t |-> "string", scheme |-> scheme, host |-> host, path |-> path]

\* The empty string.
EmptyString == Str("", "", "")

\* undefined: a missing property.
Undefined == [t |-> "undefined"]

\* A truthy value that is no string (a number, an object).
NonString == [t |-> "number"]

\* JavaScript truthiness of a value used as a condition.
Truthy(v) == v.t = "number" \/ (v.t = "string" /\ v # EmptyString)

\* url.startsWith('http'): only a string has the method.
startsWithHttp(v) == v.scheme \in {"http", "https"}

\* The domain names that occur as substrings of a URL part.
DomainsIn(s) ==
    CASE s = "www.youtube.com"        -> {"youtube.com"}
      [] s = "m.facebook.com"         -> {"facebook.com"}
      [] s = "/share?u=youtube.com/v" -> {"youtube.com"}
      [] OTHER                        -> {}

\* url.includes(d) for a domain name d.
includes(v, d) == d \in (DomainsIn(v.host) \cup DomainsIn(v.path))

UrlA == Str("https", "a.com", "/x")
UrlB == Str("http", "b.org", "/y")
UrlYoutube == Str("https", "www.youtube.com", "/watch")
UrlFacebook == Str("https", "m.facebook.com", "/post")
UrlFtp == Str("ftp", "c.net", "/z")
UrlShare == Str("https", "d.io", "/share?u=youtube.com/v")

\* What item.link can be in a search-API response.
Links ==
    {Undefined, EmptyString, NonString,
     UrlA, UrlB, UrlYoutube, UrlFacebook, UrlFtp, UrlShare}

\* ------------------------------------------------- searchGoogleForArticle

\* The cap on accumulated links (foundLinks.length < 2).
MaxLinks == 2

\* A value returned normally, and a thrown error.
Returned(v) == [threw |-> FALSE, value |-> v]
Threw == [threw |-> TRUE, value |-> <<>>]

\* The filter without the test of the links found so far.
isValidCapIgnored(url, foundLinks) ==
    /\ Truthy(url)
    /\ startsWithHttp(url)
    /\ ~includes(url, "youtube.com")
    /\ ~includes(url, "facebook.com")

\* The filter without the test for facebook.com.
isValidFacebookAllowed(url, foundLinks) ==
    /\ Truthy(url)
    /\ startsWithHttp(url)
    /\ ~includes(url, "youtube.com")
    /\ Len(foundLinks) < MaxLinks

\* The filter of one item's link, given the links found so far.
isValid(url, foundLinks) ==
    /\ Truthy(url)
    /\ startsWithHttp(url)
    /\ ~includes(url, "youtube.com")
    /\ ~includes(url, "facebook.com")
    /\ Len(foundLinks) < MaxLinks

\* response.data.items.forEach(...): a truthy link that is no string has no
\* startsWith method, and the call throws a TypeError out of the loop.
RECURSIVE forEachItem(_, _)
forEachItem(items, foundLinks) ==
    IF items = <<>> THEN Returned(foundLinks)
    ELSE LET url == Head(items).link IN
         IF Truthy(url) /\ url.t # "string" THEN Threw
         ELSE forEachItem(Tail(items),
                          IF isValid(url, foundLinks)
                          THEN Append(foundLinks, url)
                          ELSE foundLinks)

\* A search-API outcome: the request fails, or the response has no items
\* property, or it has a list of items.
ApiError == [kind |-> "error", hasItems |-> FALSE, items |-> <<>>]
NoItems == [kind |-> "ok", hasItems |-> FALSE, items |-> <<>>]
WithItems(items) == [kind |-> "ok", hasItems |-> TRUE, items |-> items]

\* searchGoogleForArticle with a catch that rethrows the request's error.
searchGoogleForArticleRethrows(response) ==
    IF response.kind = "error" THEN Threw
    ELSE IF ~response.hasItems THEN Returned(<<>>)
    ELSE LET r == forEachItem(response.items, <<>>) IN
         IF r.threw THEN Returned(<<>>) ELSE r

\* searchGoogleForArticle: the links found, or [] when anything throws
\* inside its try: the request itself, or the loop over the items.
searchGoogleForArticle(response) ==
    IF response.kind = "error" THEN Returned(<<>>)
    ELSE IF ~response.hasItems THEN Returned(<<>>)
    ELSE LET r == forEachItem(response.items, <<>>) IN
         IF r.threw THEN Returned(<<>>) ELSE r

\* --------------------------------------------------- scrapeContentFromURL

\* The text of a DOM element after .text().trim(): which element it is, its
\* length, and its length once whitespace runs are collapsed and trimmed.
Text(src, len, clen) == [src |-> src, len |-> len, clen |-> clen]

\* A selector that matches no element of the page.
NoMatch == Text("nomatch", 0, 0)

\* The empty string as a content value.
NoText == Text("", 0, 0)

\* contentSelectors, in order.
contentSelectors ==
    <<"article", "[role=main]", ".post-content", ".entry-content",
      ".article-content", ".article-body", ".content", "main", ".post-body",
      "[itemprop=articleBody]">>

\* A fetched page, after the unwanted elements are removed: the first element
\* each content selector matches (by position in contentSelectors), and the
\* text of body.
Page(matches, body) == [matches |-> matches, body |-> body]

\* A page on which only the listed (selector position -> text) pairs match.
PageWith(found, body) ==
    Page([k \in 1..Len(contentSelectors) |->
             IF k \in DOMAIN found THEN found[k] ELSE NoMatch],
         body)

\* The length a selector's text must exceed to end the cascade.
ContentThreshold == 500

\* The length below which the cascade's text is replaced by the body's.
BodyFallbackBelow == 500

\* The truncation cap.
MaxContentLength == 4000

\* The loop keeping the first text that is not empty, whatever matches
\* later below the threshold.
RECURSIVE selectorLoopKeepsFirst(_, _, _)
selectorLoopKeepsFirst(page, k, mainContent) ==
    IF k > Len(contentSelectors) THEN mainContent
    ELSE IF page.matches[k] # NoMatch
         THEN IF page.matches[k].len > ContentThreshold
              THEN page.matches[k]
              ELSE selectorLoopKeepsFirst(page, k + 1,
                       IF mainContent.len = 0 THEN page.matches[k]
                       ELSE mainContent)
         ELSE selectorLoopKeepsFirst(page, k + 1, mainContent)

\* for (const selector of contentSelectors) { ... break }
RECURSIVE selectorLoop(_, _, _)
selectorLoop(page, k, mainContent) ==
    IF k > Len(contentSelectors) THEN mainContent
    ELSE IF page.matches[k] # NoMatch
         THEN IF page.matches[k].len > ContentThreshold
              THEN page.matches[k]
              ELSE selectorLoop(page, k + 1, page.matches[k])
         ELSE selectorLoop(page, k + 1, mainContent)

\* if (!mainContent || mainContent.length < 500) mainContent = body text
bodyFallback(page, mainContent) ==
    IF mainContent.len = 0 \/ mainContent.len < BodyFallbackBelow
    THEN page.body
    ELSE mainContent

\* mainContent.replace(/\s+/g, ' ').trim()
collapseWhitespace(text) == [text EXCEPT !.len = text.clen]

\* A content returned as collapsed, whatever its length.
truncateNever(text) == text

\* if (mainContent.length > 4000) mainContent = mainContent.substring(0, 4000)
truncate(text) ==
    IF text.len > MaxContentLength
    THEN [text EXCEPT !.len = MaxContentLength, !.clen = MaxContentLength]
    ELSE text

\* A fetch outcome: the GET fails (network, timeout, non-2xx) or gives a page.
FetchError == [kind |-> "error", page |-> Page(<<>>, NoText)]
Fetched(page) == [kind |-> "ok", page |-> page]

\* scrapeContentFromURL: the extracted content, or '' when anything throws.
scrapeContentFromURL(fetch) ==
    IF fetch.kind = "error" THEN NoText
    ELSE truncate(collapseWhitespace(
             bodyFallback(fetch.page,
                          selectorLoop(fetch.page, 1, NoText))))

\* Pages the reference sites serve in the batch specification.
PageLong == PageWith(1 :> Text("article", 620, 600), Text("body", 900, 850))
PageCollapsesTo500 ==
    PageWith(3 :> Text(".post-content", 530, 500), Text("body", 700, 650))
PageShort == PageWith(1 :> Text("article", 120, 110), Text("body", 300, 280))
PageBodyOnly == PageWith(<<>>, Text("body", 720, 700))
PageHuge == PageWith(8 :> Text("main", 5000, 4500), Text("body", 6000, 5200))

FetchOutcomes ==
    {FetchError, Fetched(PageLong), Fetched(PageCollapsesTo500),
     Fetched(PageShort), Fetched(PageBodyOnly), Fetched(PageHuge)}

\* --------------------------------------------------- enhanceArticleWithAI

\* null, and a generated text of a given length.
Null == [t |-> "null", len |-> 0]
Generated(len) == [t |-> "string", len |-> len]

\* A test for null alone (enhanced === null).
FalsyNullOnly(v) == v.t = "null"

\* !enhanced: null and the empty string are falsy.
Falsy(v) == v.t = "null" \/ v.len = 0

\* The prompt's cut of the original content and of a reference's content.
PromptContentCut == 2000
PromptReferenceCut == 1500

\* s.substring(0, n) of a text.
substring(text, n) == IF text.len > n THEN [text EXCEPT !.len = n] ELSE text

\* referenceArticles[k]?.content || 'Not available' (k counted from 1 here)
referenceSlot(referenceArticles, k) ==
    IF k <= Len(referenceArticles) /\ referenceArticles[k].content.len > 0
    THEN referenceArticles[k].content
    ELSE Text("Not available", 13, 13)

\* aiPrompt
aiPrompt(originalTitle, originalContent, referenceArticles) ==
    [title   |-> originalTitle,
     content |-> substring(originalContent, PromptContentCut),
     ref1    |-> substring(referenceSlot(referenceArticles, 1),
                           PromptReferenceCut),
     ref2    |-> substring(referenceSlot(referenceArticles, 2),
                           PromptReferenceCut)]

\* A generation outcome: the call rejects with an Error (an authorization
\* error's message names the API key or 401), or resolves with a response
\* whose choices may be empty and whose message content may be null.
GenError(message) ==
    [kind |-> "error", message |-> message, choices |-> 0, content |-> Null]
GenResponse(choices, content) ==
    [kind |-> "ok", message |-> "", choices |-> choices, content |-> content]

GenOutcomes ==
    {GenError("401 Invalid API key"), GenError("429 rate limit"),
     GenResponse(0, Null), GenResponse(1, Null),
     GenResponse(1, Generated(0)), GenResponse(1, Generated(5200))}

\* enhanceArticleWithAI with a catch that rethrows the call's error.
enhanceArticleWithAIThrows(gen) ==
    IF gen.kind = "error" THEN Threw
    ELSE IF gen.choices = 0 THEN Returned(Null)
    ELSE IF gen.content.t = "null" THEN Returned(Null)
    ELSE Returned(gen.content)

\* enhanceArticleWithAI: the generated text, or null when anything throws:
\* the call itself, choices[0] of an empty list, .length of a null content.
enhanceArticleWithAI(gen) ==
    IF gen.kind = "error" THEN Returned(Null)
    ELSE IF gen.choices = 0 THEN Returned(Null)
    ELSE IF gen.content.t = "null" THEN Returned(Null)
    ELSE Returned(gen.content)

\* ---------------------------------------------------- saveEnhancedArticle

\* The record posted with the type of the article it was made from.
articleDataAsOriginal(originalId, originalTitle, enhancedContent, referenceUrls) ==
    [title             |-> <<originalTitle, "(Enhanced)">>,
     content           |-> enhancedContent,
     type              |-> "original",
     originalArticleId |-> originalId,
     references        |-> referenceUrls]

\* articleData
articleData(originalId, originalTitle, enhancedContent, referenceUrls) ==
    [title             |-> <<originalTitle, "(Enhanced)">>,
     content           |-> enhancedContent,
     type              |-> "updated",
     originalArticleId |-> originalId,
     references        |-> referenceUrls]

\* A create outcome: the POST fails, or the service stores the record and
\* answers with it.
CreateOutcomes == {"error", "created"}

\* saveEnhancedArticle answering with data whatever the POST did.
saveEnhancedArticleAlwaysData(outcome, data) ==
    [t |-> "object", len |-> 1, data |-> data]

\* saveEnhancedArticle: response.data, or null when the POST throws.
saveEnhancedArticle(outcome, data) ==
    IF outcome = "error"
    THEN [t |-> "null", len |-> 0, data |-> data]
    ELSE [t |-> "object", len |-> 1, data |-> data]

\* ---------------------------------------------------- scraper.js: hrefs

\* The site whose listing is harvested.
Site == "https://beyondchats.com"

\* An href attribute: its origin ("" when relative), whether a relative href
\* starts with '/', what its path is, and whether it holds a '#'.
\* Paths: blogs/page/<n>/ (kind "page"), blogs/post-<n>/ (kind "post"),
\* about/ (kind "other").
Href(origin, slash, kind, n, hash) ==
    [t |-> "string", origin |-> origin, slash |-> slash,
     kind |-> kind, n |-> n, hash |-> hash]

\* href.includes('blog')
includesBlog(href) == href.kind \in {"page", "post"}

\* href.includes('#')
includesHash(href) == href.hash

\* href.startsWith('http')
hrefStartsWithHttp(href) == href.origin # ""

\* The number href.match(/\/blogs\/page\/(\d+)/) captures, parsed, or -1
\* when there is no match: the pattern starts with a '/', which a relative
\* href that starts with "blogs" does not have.
pageNumber(href) ==
    IF href.kind = "page" /\ (href.origin # "" \/ href.slash)
    THEN href.n
    ELSE -1

\* ------------------------------------------------------------ findLastPage

\* The loop keeping the page number of the last matching anchor.
RECURSIVE eachAnchorLast(_, _)
eachAnchorLast(anchors, lastPage) ==
    IF anchors = <<>> THEN lastPage
    ELSE LET href == Head(anchors) IN
         eachAnchorLast(Tail(anchors),
                        IF href.t = "string" /\ pageNumber(href) # -1
                        THEN pageNumber(href)
                        ELSE lastPage)

\* $('a').each(...): the highest page number seen so far.
RECURSIVE eachAnchor(_, _)
eachAnchor(anchors, lastPage) ==
    IF anchors = <<>> THEN lastPage
    ELSE LET href == Head(anchors) IN
         eachAnchor(Tail(anchors),
                    IF /\ href.t = "string"
                       /\ pageNumber(href) # -1
                       /\ pageNumber(href) > lastPage
                    THEN pageNumber(href)
                    ELSE lastPage)

\* findLastPage: 1 when the render throws.
findLastPage(dom) ==
    IF dom.threw THEN 1 ELSE eachAnchor(dom.value.anchors, 1)

\* lastPage > 1 ? `${baseUrl}page/${lastPage}/` : baseUrl
lastPageUrl(lastPage) ==
    IF lastPage > 1 THEN Href(Site, TRUE, "page", lastPage, FALSE)
    ELSE Href(Site, TRUE, "listing", 0, FALSE)

\* ------------------------------------------------------ scrapeArticleLinks

\* The anchor selectors, in order.
linkSelectors ==
    <<"article a", ".post a", ".blog-post a", ".entry a", "h2 a", "h3 a",
      ".post-title a", ".entry-title a">>

\* The cap on the links harvested from one listing page.
MaxArticleLinks == 5

\* 'https://beyondchats.com' + (href.startsWith('/') ? href : '/' + href)
absolute(href) ==
    IF hrefStartsWithHttp(href) THEN href
    ELSE [href EXCEPT !.origin = Site, !.slash = TRUE]

\* x is an element of the sequence.
seqIncludes(seq, x) == \E k \in 1..Len(seq) : seq[k] = x

\* $(selector).each(...) of one selector.
RECURSIVE eachLink(_, _)
eachLink(anchors, articleLinks) ==
    IF anchors = <<>> THEN articleLinks
    ELSE LET href == Head(anchors) IN
         eachLink(Tail(anchors),
                  IF /\ href.t = "string"
                     /\ includesBlog(href)
                     /\ ~includesHash(href)
                     /\ ~seqIncludes(articleLinks, absolute(href))
                  THEN Append(articleLinks, absolute(href))
                  ELSE articleLinks)

\* The loop without its break.
RECURSIVE linkSelectorLoopNoBreak(_, _, _)
linkSelectorLoopNoBreak(dom, k, articleLinks) ==
    IF k > Len(linkSelectors)
    THEN [links |-> articleLinks, visited |-> Len(linkSelectors)]
    ELSE linkSelectorLoopNoBreak(dom, k + 1,
                                 eachLink(dom.links[k], articleLinks))

\* for (const selector of selectors) { ...; if (length >= 5) break }: the
\* links found, and how many selectors were queried.
RECURSIVE linkSelectorLoop(_, _, _)
linkSelectorLoop(dom, k, articleLinks) ==
    IF k > Len(linkSelectors)
    THEN [links |-> articleLinks, visited |-> Len(linkSelectors)]
    ELSE LET found == eachLink(dom.links[k], articleLinks) IN
         IF Len(found) >= MaxArticleLinks
         THEN [links |-> found, visited |-> k]
         ELSE linkSelectorLoop(dom, k + 1, found)

\* seq.slice(0, n)
slice(seq, n) == SubSeq(seq, 1, IF Len(seq) < n THEN Len(seq) ELSE n)

\* scrapeArticleLinks: [] when the render throws.
scrapeArticleLinks(dom) ==
    IF dom.threw THEN <<>>
    ELSE slice(linkSelectorLoop(dom.value, 1, <<>>).links, MaxArticleLinks)

\* ---------------------------------------------------- scrapeArticleContent

titleSelectors == <<"h1", ".entry-title", ".post-title", "h1.title", "article h1">>

harvestContentSelectors ==
    <<"article", ".entry-content", ".post-content", ".article-content",
      ".content", "main article", ".post-body">>

authorSelectors == <<".author", ".by-author", ".post-author", ".author-name">>

imgSelectors ==
    <<"article img", ".post-thumbnail img", ".featured-image img", "img">>

\* The length a selector's text must exceed to end the content cascade.
HarvestContentThreshold == 200

\* The least content length of a harvested article.
MinArticleLength == 100

\* title: the first selector whose element has text ends the loop.
RECURSIVE titleLoop(_, _, _)
titleLoop(dom, k, title) ==
    IF k > Len(titleSelectors) THEN title
    ELSE IF dom.titles[k] # NoMatch
         THEN IF dom.titles[k].len > 0 THEN dom.titles[k]
              ELSE titleLoop(dom, k + 1, dom.titles[k])
         ELSE titleLoop(dom, k + 1, title)

\* content: the first selector whose text exceeds 200 ends the loop.
RECURSIVE harvestContentLoop(_, _, _)
harvestContentLoop(dom, k, content) ==
    IF k > Len(harvestContentSelectors) THEN content
    ELSE IF dom.contents[k] # NoMatch
         THEN IF dom.contents[k].len > HarvestContentThreshold
              THEN dom.contents[k]
              ELSE harvestContentLoop(dom, k + 1, dom.contents[k])
         ELSE harvestContentLoop(dom, k + 1, content)

\* author: 'Unknown' unless an element matches.
RECURSIVE authorLoop(_, _, _)
authorLoop(dom, k, author) ==
    IF k > Len(authorSelectors) THEN author
    ELSE IF dom.authors[k] # NoMatch
         THEN IF dom.authors[k].len > 0 THEN dom.authors[k]
              ELSE authorLoop(dom, k + 1, dom.authors[k])
         ELSE authorLoop(dom, k + 1, author)

\* An <img> element's src: missing, or a path that is absolute or not.
NoSrc == [t |-> "undefined", abs |-> FALSE, path |-> ""]
Src(abs, path) == [t |-> "string", abs |-> abs, path |-> path]

\* No <img> element matches the selector.
NoImg == [t |-> "nomatch", abs |-> FALSE, path |-> ""]

\* null
NullSrc == [t |-> "null", abs |-> FALSE, path |-> ""]

\* imageUrl: the first element with a src ends the loop; a relative src is
\* prefixed with the site.
RECURSIVE imgLoop(_, _, _)
imgLoop(dom, k, imageUrl) ==
    IF k > Len(imgSelectors) THEN imageUrl
    ELSE IF dom.images[k] # NoImg
         THEN LET src == dom.images[k]
                  url == IF src.t = "string" /\ src.path # "" /\ ~src.abs
                         THEN [src EXCEPT !.abs = TRUE]
                         ELSE src
              IN IF url.t = "string" /\ url.path # "" THEN url
                 ELSE imgLoop(dom, k + 1, url)
         ELSE imgLoop(dom, k + 1, imageUrl)

\* null, as the article scrapeArticleContent returns.
NoArticle == [t |-> "null"]

\* The test without the title.
insufficientContentOnly(title, content) ==
    content.len = 0 \/ content.len < MinArticleLength

\* if (!title || !content || content.length < 100)
insufficient(title, content) ==
    title.len = 0 \/ content.len = 0 \/ content.len < MinArticleLength

\* scrapeArticleContent: the article's record, or null when the render
\* throws, the title is empty or the collapsed content is under 100.
scrapeArticleContent(dom, url) ==
    IF dom.threw THEN NoArticle
    ELSE LET title == titleLoop(dom.value, 1, NoText)
             content == collapseWhitespace(
                            harvestContentLoop(dom.value, 1, NoText))
             author == authorLoop(dom.value, 1, Text("Unknown", 7, 7))
             imageUrl == imgLoop(dom.value, 1, NullSrc)
         IN IF insufficient(title, content)
            THEN NoArticle
            ELSE [t        |-> "object",
                  title    |-> title,
                  content  |-> content,
                  url      |-> url,
                  author   |-> author,
                  imageUrl |-> imageUrl,
                  type     |-> "original"]

\* ------------------------------------------------------------------ state

VARIABLES
    pc,             \* where main is
    db,             \* the records the persistence service holds
    articles,       \* articlesToProcess
    i,              \* main's loop index
    results,        \* main's counters: successful, failed, total
    processed,      \* history: the _id of each article given to processOneArticle
    pauses,         \* history: the loop indexes after which main paused 3 s
    outcomes,       \* history: what processOneArticle returned, per article
    googleResults,  \* processOneArticle: the URLs the search returned
    references,     \* processOneArticle: the {url, content} pairs kept
    urlIdx,         \* processOneArticle: position in googleResults
    enhanced,       \* processOneArticle: what enhanceArticleWithAI returned
    result,         \* what processOneArticle returned
    calls,          \* history: the external calls made for the current article
    scraped,        \* history: every {url, content} scraped for the current article
    input,          \* the argument of a function applied on its own
    output,         \* its result
    hpc,            \* where scrapeArticles is
    bpc,            \* where scrapeWithPuppeteer is
    browserOpen,    \* how many launched browser instances are not closed
    launched,       \* history: how many browsers were launched
    closed,         \* history: how many times browser.close() ran
    pending,        \* scrapeWithPuppeteer: what the try block returned or threw
    rendered,       \* what scrapeWithPuppeteer returned or threw to its caller
    mongo,          \* the mongoose connection
    lastPage,       \* scrapeArticles: what findLastPage returned
    articleLinks,   \* scrapeArticles: what scrapeArticleLinks returned
    linkIdx,        \* scrapeArticles: position in articleLinks
    harvested,      \* scrapeArticles: the articles array
    run,            \* how many times the script was started
    dbAtStart,      \* history: the store when the current run started
    probe           \* main: what the startup probe found

\* The result of a function applied on its own, and its absence before.
NotApplied == [done |-> FALSE, value |-> <<>>]
Applied(v) == [done |-> TRUE, value |-> v]

batchVars == <<pc, db, articles, i, results, processed, pauses, outcomes>>
articleVars ==
    <<googleResults, references, urlIdx, enhanced, result, calls, scraped>>
fnVars == <<input, output>>
browserVars == <<bpc, browserOpen, launched, closed, pending, rendered>>
harvestVars ==
    <<hpc, browserVars, mongo, lastPage, articleLinks, linkIdx, harvested>>
runVars == <<run, dbAtStart, probe>>
vars == <<batchVars, articleVars, fnVars, harvestVars, runVars>>

\* ------------------------------------------------- the persistence service

\* The k-th original article of the store.
Original(k) ==
    [_id     |-> k,
     title   |-> <<"Title", k>>,
     content |-> Text("content", IF k % 2 = 1 THEN 1200 ELSE 3000,
                      IF k % 2 = 1 THEN 1200 ELSE 3000),
     url     |-> <<"https://beyondchats.com/blogs/", k>>,
     type    |-> "original"]

\* GET /articles?type=original
listOriginals(store) == SelectSeq(store, LAMBDA r : r.type = "original")

\* POST /articles
create(store, record) == Append(store, record)

\* ------------------------------------------------------ processOneArticle

NoResult == [success |-> FALSE, reason |-> ""]
Skip(reason) == [success |-> FALSE, reason |-> reason]
Success == [success |-> TRUE, reason |-> ""]

\* An external call: what was called, with what, and what came back.
Call(kind, arg, outcome) == [kind |-> kind, arg |-> arg, outcome |-> outcome]

\* The search responses of the batch specification.
BatchResponses ==
    {ApiError, NoItems,
     WithItems(<<[link |-> UrlYoutube], [link |-> UrlFtp]>>),
     WithItems(<<[link |-> UrlFacebook], [link |-> UrlA]>>),
     WithItems(<<[link |-> UrlA], [link |-> UrlShare], [link |-> UrlB],
                 [link |-> UrlA]>>)}

\* The length a scraped content must exceed to be kept as a reference.
MinReferenceLength == 500

\* The test with >= in place of >.
keepsReferenceAtLeast(content) == content.len >= MinReferenceLength

\* content && content.length > 500
keepsReference(content) == content.len > 0 /\ content.len > MinReferenceLength

\* The line numbered with i in place of i + 1.
citationLineFromZero(ref, idx) ==
    [number |-> idx, source |-> idx, url |-> ref.url]

\* `${i + 1}. [Source ${i + 1}](${ref.url})`, i counted from 0
citationLine(ref, idx) ==
    [number |-> idx + 1, source |-> idx + 1, url |-> ref.url]

\* referencesSection
referencesSection(refs) ==
    [heading     |-> "## References",
     intro       |-> "This article was enhanced based on insights from:",
     lines       |-> [k \in 1..Len(refs) |-> citationLine(refs[k], k - 1)],
     attribution |-> "*Enhanced by AI for improved SEO and readability.*"]

\* finalContent = enhanced + referencesSection
finalContent(text, refs) ==
    [text |-> text, section |-> referencesSection(refs)]

\* references.map(r => r.url)
referenceUrls(refs) == [k \in 1..Len(refs) |-> refs[k].url]

\* The local `enhanced` before the generation call returns.
Unassigned == [t |-> "unassigned", len |-> 0]

\* Where processOneArticle goes after a stage: on to the next stage, or out
\* with a result.
Goes(stage) == [pc |-> stage, result |-> NoResult]
Returns(res) == [pc |-> "returned", result |-> res]

\* The search stage without the test for no result.
afterSearchUnchecked(found) == Goes("scrape")

\* if (googleResults.length === 0) return ...
afterSearch(found) ==
    IF Len(found) = 0 THEN Returns(Skip("No Google results"))
    ELSE Goes("scrape")

\* end of the for loop; if (references.length === 0) return ...
afterScrape(more, kept) ==
    IF more THEN Goes("scrape")
    ELSE IF Len(kept) = 0 THEN Returns(Skip("Scraping failed"))
    ELSE Goes("enhance")

\* The generation stage without the test of its result.
afterEnhanceUnchecked(value) == Goes("save")

\* if (!enhanced) return ...
afterEnhance(value) ==
    IF Falsy(value) THEN Returns(Skip("AI failed")) ELSE Goes("save")

\* if (saved) return { success: true }; return ... 'Save failed'
afterSave(saved) ==
    IF saved.t # "null" THEN Returns(Success)
    ELSE Returns(Skip("Save failed"))

\* catch (error) { return { success: false, reason: error.message } }
catchError(message) == Returns(Skip(message))

\* The article main's loop is at.
article == articles[i + 1]

\* STEP 1: the search; no URL ends the article, and an error thrown out of
\* searchGoogleForArticle would be caught by processOneArticle's catch.
SearchStep ==
    /\ pc = "search"
    /\ \E response \in BatchResponses :
         LET r == searchGoogleForArticle(response)
             go == IF r.threw THEN catchError("Request failed")
                   ELSE afterSearch(r.value)
         IN
         /\ googleResults' = r.value
         /\ calls' = <<Call("search", article.title, response)>>
         /\ result' = go.result
         /\ pc' = go.pc
    /\ processed' = Append(processed, article._id)
    /\ references' = <<>>
    /\ scraped' = <<>>
    /\ urlIdx' = 1
    /\ enhanced' = Unassigned
    /\ UNCHANGED <<db, articles, i, results, pauses, outcomes, fnVars, runVars, harvestVars>>

\* STEP 2: one pass of the loop over googleResults, with its 1 s wait; after
\* the last URL, no reference kept ends the article.
ScrapeStep ==
    /\ pc = "scrape"
    /\ urlIdx <= Len(googleResults)
    /\ \E fetch \in FetchOutcomes :
         LET url == googleResults[urlIdx]
             content == scrapeContentFromURL(fetch)
             kept == IF keepsReference(content)
                     THEN Append(references, [url |-> url, content |-> content])
                     ELSE references
             go == afterScrape(urlIdx < Len(googleResults), kept)
         IN
         /\ references' = kept
         /\ scraped' = Append(scraped, [url |-> url, content |-> content])
         /\ calls' = Append(calls, Call("scrape", url, fetch.kind))
         /\ urlIdx' = urlIdx + 1
         /\ result' = go.result
         /\ pc' = go.pc
    /\ UNCHANGED <<db, articles, i, results, processed, pauses, outcomes,
                   googleResults, enhanced, fnVars, runVars, harvestVars>>

\* STEP 3: the generation call; an error thrown out of enhanceArticleWithAI
\* would reach processOneArticle's own catch.
EnhanceStep ==
    /\ pc = "enhance"
    /\ \E gen \in GenOutcomes :
         LET r == enhanceArticleWithAI(gen)
             go == IF r.threw THEN catchError(gen.message)
                   ELSE afterEnhance(r.value)
         IN
         /\ calls' = Append(calls,
                Call("generate",
                     aiPrompt(article.title, article.content, references),
                     gen))
         /\ enhanced' = IF r.threw THEN Unassigned ELSE r.value
         /\ result' = go.result
         /\ pc' = go.pc
    /\ UNCHANGED <<db, articles, i, results, processed, pauses, outcomes,
                   googleResults, references, urlIdx, scraped, fnVars, runVars, harvestVars>>

\* STEPS 4 and 5: the citation section is appended and the record is posted.
SaveStep ==
    /\ pc = "save"
    /\ \E outcome \in CreateOutcomes :
         LET data == articleData(article._id, article.title,
                                 finalContent(enhanced, references),
                                 referenceUrls(references))
             go == afterSave(saveEnhancedArticle(outcome, data))
         IN
         /\ calls' = Append(calls, Call("save", data, outcome))
         /\ db' = IF outcome = "created" THEN create(db, data) ELSE db
         /\ result' = go.result
         /\ pc' = go.pc
    /\ UNCHANGED <<articles, i, results, processed, pauses, outcomes,
                   googleResults, references, urlIdx, enhanced, scraped,
                   fnVars, runVars, harvestVars>>

\* ------------------------------------------------------------------- main

\* A probe whose failure is logged and the run goes on.
afterProbeLogged(reachable) == "fetch"

\* try { await axios.get(...) } catch { ...; process.exit(1) }
afterProbe(reachable) == IF reachable THEN "fetch" ELSE "exit1"

\* The startup probe: GET /articles fails and the process exits with 1.
CheckBackend ==
    /\ pc = "probe"
    /\ \E reachable \in BOOLEAN :
         /\ probe' = IF reachable THEN "reachable" ELSE "unreachable"
         /\ pc' = afterProbe(reachable)
    /\ UNCHANGED <<db, articles, i, results, processed, pauses, outcomes,
                   articleVars, fnVars, run, dbAtStart, harvestVars>>

\* fetchArticlesFromAPI, [] on an error; no article exits with 0.
FetchArticles ==
    /\ pc = "fetch"
    /\ \E ok \in BOOLEAN :
         LET fetched == IF ok THEN listOriginals(db) ELSE <<>> IN
         /\ articles' = fetched
         /\ pc' = IF Len(fetched) = 0 THEN "exit0" ELSE "warmup"
    /\ UNCHANGED <<db, i, results, processed, pauses, outcomes, articleVars,
                   fnVars, runVars, harvestVars>>

\* The 2 s wait, then the counters and the loop index are set.
WarmUp ==
    /\ pc = "warmup"
    /\ results' = [successful |-> 0, failed |-> 0, total |-> Len(articles)]
    /\ i' = 0
    /\ pc' = "search"
    /\ UNCHANGED <<db, articles, processed, pauses, outcomes, articleVars,
                   fnVars, runVars, harvestVars>>

\* A loop that ends at the first failed article.
nextIndexStopsOnFailure(idx, res) ==
    IF res.success THEN idx + 1 ELSE Len(articles)

\* The index after an article's result: i++ whatever the result.
nextIndex(idx, res) == idx + 1

\* The counters with the two branches swapped.
countSwapped(counters, res) ==
    IF res.success
    THEN [counters EXCEPT !.failed = @ + 1]
    ELSE [counters EXCEPT !.successful = @ + 1]

\* if (result.success) results.successful++ else results.failed++
count(counters, res) ==
    IF res.success
    THEN [counters EXCEPT !.successful = @ + 1]
    ELSE [counters EXCEPT !.failed = @ + 1]

\* The wait between two articles, in milliseconds.
ArticlePauseMs == 3000

\* A wait after every article, the last one too.
waitsAfterEvery(idx, total) == TRUE

\* if (i < articlesToProcess.length - 1) { wait 3 s }
waits(idx, total) == idx < total - 1

\* The rest of the loop body once processOneArticle returned: the counters,
\* the 3 s wait unless this was the last article, and i++.
LoopTail ==
    /\ pc = "returned"
    /\ results' = count(results, result)
    /\ outcomes' = Append(outcomes, result)
    /\ pauses' = IF waits(i, Len(articles))
                  THEN Append(pauses, [after |-> i, ms |-> ArticlePauseMs])
                  ELSE pauses
    /\ i' = nextIndex(i, result)
    /\ pc' = IF nextIndex(i, result) < Len(articles) THEN "search" ELSE "summary"
    /\ googleResults' = <<>>
    /\ references' = <<>>
    /\ scraped' = <<>>
    /\ calls' = <<>>
    /\ urlIdx' = 1
    /\ enhanced' = Unassigned
    /\ result' = NoResult
    /\ UNCHANGED <<db, articles, processed, fnVars, runVars, harvestVars>>

\* The summary is printed and main returns.
Summary ==
    /\ pc = "summary"
    /\ pc' = "done"
    /\ UNCHANGED <<db, articles, i, results, processed, pauses, outcomes,
                   articleVars, fnVars, runVars, harvestVars>>

\* The enhancement script is not running.
BatchIdle ==
    /\ articles = <<>>
    /\ i = 0
    /\ results = [successful |-> 0, failed |-> 0, total |-> 0]
    /\ processed = <<>>
    /\ pauses = <<>>
    /\ outcomes = <<>>
    /\ googleResults = <<>>
    /\ references = <<>>
    /\ scraped = <<>>
    /\ calls = <<>>
    /\ urlIdx = 1
    /\ enhanced = Unassigned
    /\ result = NoResult

\* No function is applied on its own.
FnIdle ==
    /\ input = <<>>
    /\ output = NotApplied

\* The harvest script is not running.
HarvestIdle ==
    /\ hpc = "idle"
    /\ bpc = "idle"
    /\ browserOpen = 0
    /\ launched = 0
    /\ closed = 0
    /\ pending = Threw
    /\ rendered = Threw
    /\ mongo = "idle"
    /\ lastPage = 1
    /\ articleLinks = <<>>
    /\ linkIdx = 1
    /\ harvested = <<>>

\* The first run of a script, nothing probed yet.
FirstRun ==
    /\ run = 1
    /\ dbAtStart = db
    /\ probe = "pending"

Init ==
    /\ pc = "probe"
    /\ \E n \in 0..MaxArticles : db = [k \in 1..n |-> Original(k)]
    /\ FirstRun
    /\ BatchIdle
    /\ FnIdle
    /\ HarvestIdle

Next ==
    \/ CheckBackend
    \/ FetchArticles
    \/ WarmUp
    \/ SearchStep
    \/ ScrapeStep
    \/ EnhanceStep
    \/ SaveStep
    \/ LoopTail
    \/ Summary

Spec == Init /\ [][Next]_vars

\* ------------------------------------------------- the batch run again

\* How many times a script is started.
MaxRuns == 2

\* How many originals the store holds when the batch is run again.
MaxRerunArticles == 1

\* node index.js once more, after the run before ended: only the store is
\* kept.
MainAgain ==
    /\ pc \in {"exit0", "exit1", "done"}
    /\ run < MaxRuns
    /\ run' = run + 1
    /\ dbAtStart' = db
    /\ probe' = "pending"
    /\ pc' = "probe"
    /\ articles' = <<>>
    /\ i' = 0
    /\ results' = [successful |-> 0, failed |-> 0, total |-> 0]
    /\ processed' = <<>>
    /\ pauses' = <<>>
    /\ outcomes' = <<>>
    /\ googleResults' = <<>>
    /\ references' = <<>>
    /\ scraped' = <<>>
    /\ calls' = <<>>
    /\ urlIdx' = 1
    /\ enhanced' = Unassigned
    /\ result' = NoResult
    /\ UNCHANGED <<db, fnVars, harvestVars>>

NextRerun ==
    \/ CheckBackend
    \/ FetchArticles
    \/ WarmUp
    \/ SearchStep
    \/ ScrapeStep
    \/ EnhanceStep
    \/ SaveStep
    \/ LoopTail
    \/ Summary
    \/ MainAgain

InitRerun ==
    /\ pc = "probe"
    /\ \E n \in 1..MaxRerunArticles : db = [k \in 1..n |-> Original(k)]
    /\ FirstRun
    /\ BatchIdle
    /\ FnIdle
    /\ HarvestIdle

SpecRerun == InitRerun /\ [][NextRerun]_vars

\* ------------------------------------- searchGoogleForArticle on its own

SearchItems == {[link |-> l] : l \in Links}

\* Every search-API outcome with at most MaxItems items.
SearchResponses ==
    {ApiError, NoItems} \cup
    {WithItems(items) :
        items \in UNION {[1..n -> SearchItems] : n \in 0..MaxItems}}

InitSearch ==
    /\ pc = "searchGoogleForArticle"
    /\ input \in SearchResponses
    /\ output = NotApplied
    /\ db = <<>>
    /\ FirstRun
    /\ BatchIdle
    /\ HarvestIdle

ApplySearch ==
    /\ pc = "searchGoogleForArticle"
    /\ ~output.done
    /\ output' = Applied(searchGoogleForArticle(input).value)
    /\ UNCHANGED <<batchVars, articleVars, input, harvestVars, runVars>>

NextSearch == ApplySearch

SpecSearch == InitSearch /\ [][NextSearch]_vars

\* ------------------------------------------------- scrapeWithPuppeteer

\* The rendered pages the site serves for the listing base URL.
PaginationDoms ==
    {[anchors |-> <<>>],
     [anchors |-> <<Href("", TRUE, "page", 2, FALSE),
                    Href(Site, TRUE, "page", 5, FALSE),
                    Href("", TRUE, "page", 3, FALSE)>>],
     [anchors |-> <<Undefined,
                    Href("", FALSE, "page", 7, FALSE),
                    Href("", TRUE, "post", 1, FALSE)>>]}

\* A listing page on which only the listed (selector position -> anchors)
\* pairs match.
ListingWith(found) ==
    [links |-> [k \in 1..Len(linkSelectors) |->
                   IF k \in DOMAIN found THEN found[k] ELSE <<>>]]

\* The rendered pages the site serves for a listing page.
ListingDoms ==
    {ListingWith(<<>>),
     ListingWith(1 :> <<Href("", TRUE, "post", 1, FALSE),
                        Href("", FALSE, "post", 1, FALSE),
                        Href("", TRUE, "post", 2, TRUE),
                        Href("", TRUE, "other", 0, FALSE),
                        Undefined>>
              @@ 5 :> <<Href(Site, TRUE, "post", 1, FALSE),
                        Href("", TRUE, "post", 2, FALSE)>>),
     ListingWith(1 :> <<Href("", TRUE, "post", 1, FALSE),
                        Href("", TRUE, "post", 2, FALSE),
                        Href("", TRUE, "post", 3, FALSE),
                        Href("", TRUE, "post", 4, FALSE),
                        Href("", TRUE, "post", 5, FALSE),
                        Href("", TRUE, "post", 6, FALSE)>>
              @@ 6 :> <<Href("", TRUE, "post", 7, FALSE)>>)}

\* An article page on which only the listed elements match.
ArticleWith(titles, contents, authors, images) ==
    [titles   |-> [k \in 1..Len(titleSelectors) |->
                      IF k \in DOMAIN titles THEN titles[k] ELSE NoMatch],
     contents |-> [k \in 1..Len(harvestContentSelectors) |->
                      IF k \in DOMAIN contents THEN contents[k] ELSE NoMatch],
     authors  |-> [k \in 1..Len(authorSelectors) |->
                      IF k \in DOMAIN authors THEN authors[k] ELSE NoMatch],
     images   |-> [k \in 1..Len(imgSelectors) |->
                      IF k \in DOMAIN images THEN images[k] ELSE NoImg]]

\* The rendered pages the site serves for an article.
ArticleDoms ==
    {ArticleWith(1 :> Text("h1", 12, 12),
                 1 :> Text("article", 300, 260),
                 1 :> Text(".author", 5, 5),
                 1 :> Src(FALSE, "/img/a.png")),
     ArticleWith(1 :> Text("h1", 0, 0) @@ 3 :> Text(".post-title", 20, 20),
                 1 :> Text("article", 150, 99) @@ 5 :> Text(".content", 120, 100),
                 <<>>,
                 1 :> NoSrc @@ 4 :> Src(TRUE, "https://cdn.example/b.png")),
     ArticleWith(<<>>,
                 2 :> Text(".entry-content", 400, 380),
                 <<>>, <<>>),
     ArticleWith(1 :> Text("h1", 30, 30),
                 2 :> Text(".entry-content", 150, 99),
                 <<>>, <<>>)}

\* The pages the site serves for the URL the current stage renders.
DomsFor(stage) ==
    CASE stage = "findLastPage"         -> PaginationDoms
      [] stage = "scrapeArticleLinks"   -> ListingDoms
      [] stage = "scrapeArticleContent" -> ArticleDoms

\* scrapeArticles is inside a call of scrapeWithPuppeteer's caller.
Rendering ==
    hpc \in {"findLastPage", "scrapeArticleLinks", "scrapeArticleContent"}

\* puppeteer.launch: outside the try, a failure throws to the caller with
\* no browser launched.
Launch ==
    /\ Rendering
    /\ bpc = "launch"
    /\ \E ok \in BOOLEAN :
         IF ok
         THEN /\ browserOpen' = browserOpen + 1
              /\ launched' = launched + 1
              /\ bpc' = "newPage"
              /\ rendered' = rendered
         ELSE /\ rendered' = Threw
              /\ bpc' = "returned"
              /\ UNCHANGED <<browserOpen, launched>>
    /\ UNCHANGED <<batchVars, articleVars, fnVars, runVars, hpc, closed, pending,
                   mongo, lastPage, articleLinks, linkIdx, harvested>>

\* A step of the try block that only succeeds or throws: on a throw the
\* catch logs and rethrows, and the finally block is next.
TryStep(at, then) ==
    /\ Rendering
    /\ bpc = at
    /\ \E ok \in BOOLEAN :
         IF ok
         THEN /\ bpc' = then
              /\ pending' = pending
         ELSE /\ bpc' = "close"
              /\ pending' = Threw
    /\ UNCHANGED <<batchVars, articleVars, fnVars, runVars, hpc, browserOpen,
                   launched, closed, rendered, mongo, lastPage,
                   articleLinks, linkIdx, harvested>>

\* browser.newPage()
NewPage == TryStep("newPage", "setUserAgent")

\* page.setUserAgent(...)
SetUserAgent == TryStep("setUserAgent", "goto")

\* page.goto(url, { waitUntil: 'networkidle2', timeout: 30000 })
Goto == TryStep("goto", "settle")

\* The 2 s wait after the navigation.
Settle ==
    /\ Rendering
    /\ bpc = "settle"
    /\ bpc' = "content"
    /\ UNCHANGED <<batchVars, articleVars, fnVars, runVars, hpc, browserOpen,
                   launched, closed, pending, rendered, mongo, lastPage,
                   articleLinks, linkIdx, harvested>>

\* page.content() and cheerio.load: the try block returns the document, one
\* of those the site serves.
ContentOf(served) ==
    /\ Rendering
    /\ bpc = "content"
    /\ \/ \E dom \in served : pending' = Returned(dom)
       \/ pending' = Threw
    /\ bpc' = "close"
    /\ UNCHANGED <<batchVars, articleVars, fnVars, runVars, hpc, browserOpen,
                   launched, closed, rendered, mongo, lastPage,
                   articleLinks, linkIdx, harvested>>

Content == ContentOf(DomsFor(hpc))

\* A close that runs only when the try block returned.
closeBrowserOnSuccessOnly(open, outcome) ==
    IF outcome.threw THEN open ELSE open - 1

\* finally { await browser.close() }: the open instances after the block.
closeBrowser(open, outcome) == open - 1

\* The finally block, then the return or the rethrow to the caller.
Close ==
    /\ Rendering
    /\ bpc = "close"
    /\ browserOpen' = closeBrowser(browserOpen, pending)
    /\ closed' = closed + (browserOpen - closeBrowser(browserOpen, pending))
    /\ rendered' = pending
    /\ bpc' = "returned"
    /\ UNCHANGED <<batchVars, articleVars, fnVars, runVars, hpc, launched, pending,
                   mongo, lastPage, articleLinks, linkIdx, harvested>>

\* ---------------------------------------------------------- scrapeArticles

\* mongoose.connect(...) resolves.
MongoConnected ==
    /\ mongo = "connecting"
    /\ hpc \notin {"exit0", "exit1"}
    /\ mongo' = "connected"
    /\ UNCHANGED <<batchVars, articleVars, fnVars, runVars, hpc, browserVars,
                   lastPage, articleLinks, linkIdx, harvested>>

\* mongoose.connect(...) rejects: process.exit(1), wherever the harvest is.
\* Whether a browser open at that moment outlives the process is not the
\* script's doing: either can happen.
MongoFailed ==
    /\ mongo = "connecting"
    /\ hpc \notin {"exit0", "exit1"}
    /\ mongo' = "failed"
    /\ hpc' = "exit1"
    /\ browserOpen' \in {0, browserOpen}
    /\ UNCHANGED <<batchVars, articleVars, fnVars, runVars, bpc, launched, closed,
                   pending, rendered, lastPage, articleLinks, linkIdx,
                   harvested>>

\* Step 1: findLastPage returned; the listing page to harvest is rendered.
HarvestLastPage ==
    /\ hpc = "findLastPage"
    /\ bpc = "returned"
    /\ lastPage' = findLastPage(rendered)
    /\ hpc' = "scrapeArticleLinks"
    /\ bpc' = "launch"
    /\ UNCHANGED <<batchVars, articleVars, fnVars, runVars, browserOpen, launched,
                   closed, pending, rendered, mongo, articleLinks, linkIdx,
                   harvested>>

\* Step 2: scrapeArticleLinks returned; no link exits with 0.
HarvestLinks ==
    /\ hpc = "scrapeArticleLinks"
    /\ bpc = "returned"
    /\ articleLinks' = scrapeArticleLinks(rendered)
    /\ linkIdx' = 1
    /\ IF Len(scrapeArticleLinks(rendered)) = 0
       THEN hpc' = "exit0" /\ bpc' = "idle"
       ELSE hpc' = "scrapeArticleContent" /\ bpc' = "launch"
    /\ UNCHANGED <<batchVars, articleVars, fnVars, runVars, browserOpen, launched,
                   closed, pending, rendered, mongo, lastPage, harvested>>

\* Step 3: scrapeArticleContent returned for one link; an article is kept,
\* null is dropped; the 1 s wait; the next link, or the saving.
HarvestContent ==
    /\ hpc = "scrapeArticleContent"
    /\ bpc = "returned"
    /\ LET scrapedArticle ==
               scrapeArticleContent(rendered, articleLinks[linkIdx])
       IN harvested' = IF scrapedArticle # NoArticle
                       THEN Append(harvested, scrapedArticle)
                       ELSE harvested
    /\ IF linkIdx < Len(articleLinks)
       THEN /\ linkIdx' = linkIdx + 1
            /\ hpc' = "scrapeArticleContent"
            /\ bpc' = "launch"
       ELSE /\ linkIdx' = 1
            /\ hpc' = "save"
            /\ bpc' = "idle"
    /\ UNCHANGED <<batchVars, articleVars, fnVars, runVars, browserOpen, launched,
                   closed, pending, rendered, mongo, lastPage, articleLinks>>

\* Article.findOne({ url })
findOne(store, url) == \E k \in 1..Len(store) : store[k].url = url

\* A save without the lookup.
saveArticleUnguarded(store, record) == Append(store, record)

\* if (existing) { skip } else { await Article.create(articleData) }
saveArticle(store, record) ==
    IF findOne(store, record.url) THEN store ELSE Append(store, record)

\* Step 4, one article: it is created unless one with its url exists; an
\* error of the lookup or of the creation is logged and the loop goes on.
\* Until the connection is up the operations wait, or time out and throw.
HarvestSave ==
    /\ hpc = "save"
    /\ linkIdx <= Len(harvested)
    /\ \E outcome \in {"findOne throws", "create throws", "ok"} :
         /\ outcome = "ok" => mongo = "connected"
         /\ db' = IF outcome = "ok"
                  THEN saveArticle(db, harvested[linkIdx])
                  ELSE db
    /\ linkIdx' = linkIdx + 1
    /\ UNCHANGED <<pc, articles, i, results, processed, pauses, outcomes,
                   articleVars, fnVars, runVars, hpc, browserVars, mongo, lastPage,
                   articleLinks, harvested>>

\* finally { mongoose.connection.close(); process.exit(0) }
HarvestEnd ==
    /\ hpc = "save"
    /\ linkIdx > Len(harvested)
    /\ hpc' = "exit0"
    /\ mongo' = "closed"
    /\ UNCHANGED <<batchVars, articleVars, fnVars, runVars, browserVars, lastPage,
                   articleLinks, linkIdx, harvested>>

\* An article record a previous harvest stored.
Stored(n) ==
    [t        |-> "object",
     title    |-> Text("h1", 12, 12),
     content  |-> Text("article", 260, 260),
     url      |-> Href(Site, TRUE, "post", n, FALSE),
     author   |-> Text(".author", 5, 5),
     imageUrl |-> Src(TRUE, "/img/a.png"),
     type     |-> "original"]

InitHarvest ==
    /\ pc = "scrapeArticles"
    /\ db \in {<<>>, <<Stored(1)>>}
    /\ FirstRun
    /\ BatchIdle
    /\ FnIdle
    /\ hpc = "findLastPage"
    /\ bpc = "launch"
    /\ browserOpen = 0
    /\ launched = 0
    /\ closed = 0
    /\ pending = Threw
    /\ rendered = Threw
    /\ mongo = "connecting"
    /\ lastPage = 1
    /\ articleLinks = <<>>
    /\ linkIdx = 1
    /\ harvested = <<>>

NextHarvest ==
    \/ MongoConnected
    \/ MongoFailed
    \/ Launch
    \/ NewPage
    \/ SetUserAgent
    \/ Goto
    \/ Settle
    \/ Content
    \/ Close
    \/ HarvestLastPage
    \/ HarvestLinks
    \/ HarvestContent
    \/ HarvestSave
    \/ HarvestEnd

SpecHarvest == InitHarvest /\ [][NextHarvest]_vars

\* ------------------------------------------- the extractors on their own

\* How many of the first content selectors can match on a page.
MaxMatches == 3

\* A selector that matches nothing, as a (length, collapsed length) pair.
NoLength == <<-1, -1>>

\* The (length, collapsed length) of the texts tried, around the lengths
\* the reference scrape tests: 0, 500 and 4000.
RefLengths ==
    {<<0, 0>>, <<120, 110>>, <<500, 500>>, <<501, 501>>, <<4100, 4000>>,
     <<5000, 4500>>}

\* The same around the lengths the harvesting scrape tests: 0, 100 and 200,
\* and beyond 4000.
HarvestLengths ==
    {<<0, 0>>, <<150, 99>>, <<120, 100>>, <<200, 200>>, <<201, 150>>,
     <<6000, 5200>>}

\* The text of the element a selector matches, from its lengths.
TextOf(selector, lengths) ==
    IF lengths = NoLength THEN NoMatch
    ELSE Text(selector, lengths[1], lengths[2])

\* Every fetched page on which each of the first MaxMatches content
\* selectors matches nothing or an element with one of the texts.
RefPages ==
    {Page([k \in 1..Len(contentSelectors) |->
              IF k <= MaxMatches THEN TextOf(contentSelectors[k], f[k])
              ELSE NoMatch],
          body) :
        f \in [1..MaxMatches -> RefLengths \cup {NoLength}],
        body \in {NoText, Text("body", 720, 700), Text("body", 6000, 5200)}}

\* Every rendered article page with or without a title, on which each of
\* the first MaxMatches content selectors matches nothing or an element
\* with one of the texts.
HarvestPages ==
    {ArticleWith(titles,
                 [k \in 1..MaxMatches |->
                     TextOf(harvestContentSelectors[k], f[k])],
                 <<>>, <<>>) :
        titles \in {<<>>, <<Text("h1", 12, 12)>>},
        f \in [1..MaxMatches -> HarvestLengths \cup {NoLength}]}

\* The calls of the two extractors.
ExtractInputs ==
    {[fn |-> "scrapeContentFromURL", arg |-> fetch] :
        fetch \in {FetchError} \cup {Fetched(page) : page \in RefPages}}
    \cup
    {[fn |-> "scrapeArticleContent", arg |-> dom] :
        dom \in {Threw} \cup {Returned(page) : page \in HarvestPages}}

InitExtract ==
    /\ pc = "extract"
    /\ input \in ExtractInputs
    /\ output = NotApplied
    /\ db = <<>>
    /\ FirstRun
    /\ BatchIdle
    /\ HarvestIdle

\* scrapeContentFromURL returns; `cascade` is mainContent after the selector
\* loop.
ApplyScrapeContentFromURL ==
    /\ pc = "extract"
    /\ input.fn = "scrapeContentFromURL"
    /\ ~output.done
    /\ output' = Applied(
           [content |-> scrapeContentFromURL(input.arg),
            cascade |-> IF input.arg.kind = "error" THEN NoText
                        ELSE selectorLoop(input.arg.page, 1, NoText)])
    /\ UNCHANGED <<batchVars, articleVars, input, harvestVars, runVars>>

\* scrapeArticleContent returns; `cascade` is content after the selector
\* loop.
ApplyScrapeArticleContent ==
    /\ pc = "extract"
    /\ input.fn = "scrapeArticleContent"
    /\ ~output.done
    /\ output' = Applied(
           [article |-> scrapeArticleContent(input.arg, Href(Site, TRUE, "post", 1, FALSE)),
            cascade |-> IF input.arg.threw THEN NoText
                        ELSE harvestContentLoop(input.arg.value, 1, NoText)])
    /\ UNCHANGED <<batchVars, articleVars, input, harvestVars, runVars>>

NextExtract ==
    \/ ApplyScrapeContentFromURL
    \/ ApplyScrapeArticleContent

SpecExtract == InitExtract /\ [][NextExtract]_vars

\* ---------------------------------- the listing functions on their own

\* How many anchors a pagination page has at most.
MaxAnchors == 3

\* The href attributes of the anchors of a pagination page: none, page
\* links in the forms the site writes them, a relative one without the
\* leading '/', an article link.
PaginationHrefs ==
    {Undefined,
     Href("", TRUE, "page", 1, FALSE),
     Href("", TRUE, "page", 2, FALSE),
     Href("", TRUE, "page", 3, FALSE),
     Href(Site, TRUE, "page", 5, FALSE),
     Href("", FALSE, "page", 7, FALSE),
     Href("", TRUE, "post", 1, FALSE)}

\* The renders of the base listing URL: a failure, or a page with at most
\* MaxAnchors anchors.
PaginationRenders ==
    {Threw} \cup
    {Returned([anchors |-> anchors]) :
        anchors \in UNION {[1..n -> PaginationHrefs] : n \in 0..MaxAnchors}}

\* The anchors one link selector matches on a listing page: none; two
\* articles; an article in three forms of href, an anchor with a '#', a
\* link that is no article, an anchor without href; six articles; three
\* more; a single one.
LinkRuns ==
    {<<>>,
     <<Href("", TRUE, "post", 1, FALSE), Href("", TRUE, "post", 2, FALSE)>>,
     <<Href("", TRUE, "post", 1, FALSE), Href("", FALSE, "post", 1, FALSE),
       Href(Site, TRUE, "post", 1, FALSE), Href("", TRUE, "post", 2, TRUE),
       Href("", TRUE, "other", 0, FALSE), Undefined>>,
     <<Href("", TRUE, "post", 1, FALSE), Href("", TRUE, "post", 2, FALSE),
       Href("", TRUE, "post", 3, FALSE), Href("", TRUE, "post", 4, FALSE),
       Href("", TRUE, "post", 5, FALSE), Href("", TRUE, "post", 6, FALSE)>>,
     <<Href("", TRUE, "post", 3, FALSE), Href("", TRUE, "post", 4, FALSE),
       Href("", TRUE, "post", 5, FALSE)>>,
     <<Href("", TRUE, "post", 7, FALSE)>>}

\* The renders of a listing page: a failure, or a page on which the
\* selectors 'article a', '.post a' and 'h3 a' each match one of the runs.
ListingRenders ==
    {Threw} \cup
    {Returned(ListingWith(1 :> a @@ 2 :> b @@ 6 :> c)) :
        a \in LinkRuns, b \in LinkRuns, c \in LinkRuns}

ListingInputs ==
    {[fn |-> "findLastPage", arg |-> dom] : dom \in PaginationRenders}
    \cup
    {[fn |-> "scrapeArticleLinks", arg |-> dom] : dom \in ListingRenders}

InitListing ==
    /\ pc = "listing"
    /\ input \in ListingInputs
    /\ output = NotApplied
    /\ db = <<>>
    /\ FirstRun
    /\ BatchIdle
    /\ HarvestIdle

\* findLastPage returns, and scrapeArticles derives the listing URL to
\* harvest.
ApplyFindLastPage ==
    /\ pc = "listing"
    /\ input.fn = "findLastPage"
    /\ ~output.done
    /\ output' = Applied(
           [lastPage    |-> findLastPage(input.arg),
            lastPageUrl |-> lastPageUrl(findLastPage(input.arg))])
    /\ UNCHANGED <<batchVars, articleVars, input, harvestVars, runVars>>

\* scrapeArticleLinks returns; `visited` is how many selectors its loop
\* queried.
ApplyScrapeArticleLinks ==
    /\ pc = "listing"
    /\ input.fn = "scrapeArticleLinks"
    /\ ~output.done
    /\ output' = Applied(
           [links   |-> scrapeArticleLinks(input.arg),
            visited |-> IF input.arg.threw THEN 0
                        ELSE linkSelectorLoop(input.arg.value, 1, <<>>).visited])
    /\ UNCHANGED <<batchVars, articleVars, input, harvestVars, runVars>>

NextListing ==
    \/ ApplyFindLastPage
    \/ ApplyScrapeArticleLinks

SpecListing == InitListing /\ [][NextListing]_vars

\* ------------------------------------------------ the harvest run again

\* The pages a small site serves: no pagination link, a listing of two
\* articles or of a third one, an article that is complete or too short.
SmallSiteDoms(stage) ==
    CASE stage = "findLastPage" ->
             {[anchors |-> <<>>]}
      [] stage = "scrapeArticleLinks" ->
             {ListingWith(1 :> <<Href("", TRUE, "post", 1, FALSE),
                                 Href(Site, TRUE, "post", 1, FALSE),
                                 Href("", TRUE, "post", 2, FALSE)>>),
              ListingWith(2 :> <<Href("", TRUE, "post", 3, FALSE)>>)}
      [] stage = "scrapeArticleContent" ->
             {ArticleWith(1 :> Text("h1", 12, 12),
                          1 :> Text("article", 300, 260),
                          1 :> Text(".author", 5, 5),
                          1 :> Src(FALSE, "/img/a.png")),
              ArticleWith(1 :> Text("h1", 30, 30),
                          2 :> Text(".entry-content", 150, 99),
                          <<>>, <<>>)}

SmallSiteContent == ContentOf(SmallSiteDoms(hpc))

\* node scraper.js once more, after the process of the run before exited:
\* only the store is kept.
HarvestAgain ==
    /\ hpc \in {"exit0", "exit1"}
    /\ run < MaxRuns
    /\ run' = run + 1
    /\ dbAtStart' = db
    /\ hpc' = "findLastPage"
    /\ bpc' = "launch"
    /\ browserOpen' = 0
    /\ launched' = 0
    /\ closed' = 0
    /\ pending' = Threw
    /\ rendered' = Threw
    /\ mongo' = "connecting"
    /\ lastPage' = 1
    /\ articleLinks' = <<>>
    /\ linkIdx' = 1
    /\ harvested' = <<>>
    /\ UNCHANGED <<batchVars, articleVars, fnVars, probe>>

NextReharvest ==
    \/ MongoConnected
    \/ MongoFailed
    \/ Launch
    \/ NewPage
    \/ SetUserAgent
    \/ Goto
    \/ Settle
    \/ SmallSiteContent
    \/ Close
    \/ HarvestLastPage
    \/ HarvestLinks
    \/ HarvestContent
    \/ HarvestSave
    \/ HarvestEnd
    \/ HarvestAgain

SpecReharvest == InitHarvest /\ [][NextReharvest]_vars

\* ------------------------------------------------------------- properties

\* The kinds of the calls made for the current article, in order.
CallKinds == [k \in 1..Len(calls) |-> calls[k].kind]

\* How many calls of a kind were made for the current article.
CallCount(kind) == Cardinality({k \in 1..Len(calls) : calls[k].kind = kind})

\* main is inside processOneArticle or has just got its result.
InArticle == pc \in {"scrape", "enhance", "save", "returned"}

\* main is in or past its loop.
InLoop == InArticle \/ pc \in {"search", "summary", "done"}

\* C1: the batch loop never ends early: the articles given to
\* processOneArticle are a prefix of the batch, each once and in list order,
\* one per loop index; when the loop has ended every article was given, and
\* successful + failed = total = the number of articles.
C1_BatchNeverAborts ==
    InLoop =>
        /\ Len(processed) <= Len(articles)
        /\ \A k \in 1..Len(processed) : processed[k] = articles[k]._id
        /\ Len(processed) = IF InArticle THEN i + 1 ELSE i
        /\ results.successful + results.failed = i
        /\ pc \in {"summary", "done"} =>
              /\ Len(processed) = Len(articles)
              /\ results.successful + results.failed = results.total
              /\ results.total = Len(articles)

\* C1 witness: a batch of two has ended although the first article failed:
\* one failure is counted and the second article's enhanced record exists.
C1_Witness ==
    /\ pc = "done"
    /\ results.failed = 1
    /\ ~outcomes[1].success
    /\ \E k \in 1..Len(db) :
         db[k].type = "updated" /\ db[k].originalArticleId = 2

\* C2: when the search returns no URL the article is skipped with the
\* 'No Google results' reason and the search is the only call made for it:
\* no scrape, no generation, no save.
C2_NoSearchResultsSkips ==
    (InArticle /\ Len(googleResults) = 0) =>
        /\ pc = "returned"
        /\ result = Skip("No Google results")
        /\ CallKinds = <<"search">>

\* C2 witness: a search that answered with items, none of them usable, and
\* the article skipped.
C2_Witness ==
    /\ pc = "returned"
    /\ Len(googleResults) = 0
    /\ Len(calls) = 1
    /\ calls[1].outcome.hasItems
    /\ result.reason = "No Google results"

\* C3: when every candidate URL was scraped and none gave content longer
\* than 500 characters (a failed fetch gives empty content), the article is
\* skipped with the 'Scraping failed' reason and neither the generation nor
\* the save was called.
C3_AllShortScrapesSkip ==
    ( /\ InArticle
      /\ Len(googleResults) > 0
      /\ Len(scraped) = Len(googleResults)
      /\ \A k \in 1..Len(scraped) : scraped[k].content.len <= 500 ) =>
        /\ pc = "returned"
        /\ result = Skip("Scraping failed")
        /\ CallCount("generate") = 0
        /\ CallCount("save") = 0

\* C3 witness: two candidates, one whose fetch failed and one whose content
\* is exactly 500 characters, and the article skipped.
C3_Witness ==
    /\ pc = "returned"
    /\ Len(scraped) = 2
    /\ calls[2].outcome = "error"
    /\ scraped[1].content.len = 0
    /\ scraped[2].content.len = 500
    /\ result.reason = "Scraping failed"

\* C4: when the generation call fails with an error, the authorization error
\* included, enhanceArticleWithAI returns null (it does not throw), the
\* article is skipped with the reason 'AI failed', and no save is called.
C4_GenerationErrorSkips ==
    \A k \in 1..Len(calls) :
        (calls[k].kind = "generate" /\ calls[k].outcome.kind = "error") =>
            /\ enhanced = Null
            /\ pc = "returned"
            /\ result = Skip("AI failed")
            /\ CallCount("save") = 0

\* C4 witness: the generation call answered with the authorization error
\* and the article is skipped.
C4_Witness ==
    /\ pc = "returned"
    /\ Len(calls) > 0
    /\ calls[Len(calls)].kind = "generate"
    /\ calls[Len(calls)].outcome = GenError("401 Invalid API key")
    /\ result.reason = "AI failed"

\* C5: when the create call fails, saveEnhancedArticle returns null and the
\* article's result is the skip 'Save failed', never a success: it is counted
\* as failed, no record is stored for it, and the loop does not end on it
\* while articles remain.
C5_SaveFailureSkips ==
    /\ \A k \in 1..Len(calls) :
         (calls[k].kind = "save" /\ calls[k].outcome = "error") =>
             /\ pc = "returned"
             /\ result = Skip("Save failed")
             /\ \A r \in 1..Len(db) :
                  db[r].type = "updated" =>
                      db[r].originalArticleId # article._id
    /\ \A k \in 1..Len(outcomes) :
         outcomes[k].reason = "Save failed" =>
             /\ ~outcomes[k].success
             /\ results.failed >= 1
             /\ (k < Len(articles) /\ pc \in {"summary", "done"}) =>
                    Len(processed) = Len(articles)
    /\ InLoop =>
         results.successful =
             Cardinality({k \in 1..Len(outcomes) : outcomes[k].success})

\* C5 witness: the first article's save failed and the second article has
\* been taken up.
C5_Witness ==
    /\ Len(outcomes) >= 1
    /\ outcomes[1].reason = "Save failed"
    /\ Len(processed) = 2
    /\ InArticle

\* C6: the calls made for an article follow the stage order search, scrapes,
\* generation, save: exactly one search, first; the generation at most once,
\* after every candidate was scraped and at least one reference was kept;
\* the save at most once, right after a generation that returned a text;
\* a returned result is the end of the article's calls, each skip ending at
\* its own stage, and a success is returned only after the create succeeded.
StageRank(kind) ==
    CASE kind = "search"   -> 1
      [] kind = "scrape"   -> 2
      [] kind = "generate" -> 3
      [] kind = "save"     -> 4

C6_StageOrder ==
    /\ InArticle =>
         /\ CallCount("search") = 1
         /\ calls[1].kind = "search"
    /\ \A k \in 1..Len(calls) - 1 :
         StageRank(calls[k].kind) <= StageRank(calls[k + 1].kind)
    /\ CallCount("generate") <= 1
    /\ CallCount("save") <= 1
    /\ \A k \in 1..Len(calls) :
         calls[k].kind = "generate" =>
             /\ Len(scraped) = Len(googleResults)
             /\ \E j \in 1..Len(scraped) : scraped[j].content.len > 500
    /\ \A k \in 1..Len(calls) :
         calls[k].kind = "save" =>
             /\ k > 1
             /\ calls[k - 1].kind = "generate"
             /\ calls[k - 1].outcome.kind = "ok"
             /\ calls[k - 1].outcome.choices > 0
             /\ calls[k - 1].outcome.content.t = "string"
             /\ calls[k - 1].outcome.content.len > 0
    /\ (result # NoResult) = (pc = "returned")
    /\ pc = "returned" =>
         LET last == calls[Len(calls)] IN
         /\ result.success => (last.kind = "save" /\ last.outcome = "created")
         /\ result.reason = "No Google results" => last.kind = "search"
         /\ result.reason = "Scraping failed" => last.kind = "scrape"
         /\ result.reason = "AI failed" => last.kind = "generate"
         /\ result.reason = "Save failed" => last.kind = "save"
    /\ pc \in {"search", "summary", "done"} => calls = <<>>

\* C6 witness: an article that went through every stage with two scrapes
\* and was saved.
C6_Witness ==
    /\ pc = "returned"
    /\ result.success
    /\ CallKinds = <<"search", "scrape", "scrape", "generate", "save">>

\* The URLs scraped for the current article whose content was longer than
\* 500 characters, in the order they were scraped.
RECURSIVE SurvivingUrls(_)
SurvivingUrls(pairs) ==
    IF pairs = <<>> THEN <<>>
    ELSE IF Head(pairs).content.len > 500
         THEN <<Head(pairs).url>> \o SurvivingUrls(Tail(pairs))
         ELSE SurvivingUrls(Tail(pairs))

\* C7: every enhanced record sent to the persistence service has a
\* references list of 1 or 2 URLs, each a URL the search returned for this
\* article and scraped in this run to content longer than 500 characters;
\* so has every enhanced record stored.
C7_SavedReferencesBounded ==
    /\ \A k \in 1..Len(calls) :
         calls[k].kind = "save" =>
             LET refs == calls[k].arg.references IN
             /\ Len(refs) >= 1
             /\ Len(refs) <= 2
             /\ \A r \in 1..Len(refs) :
                  /\ \E g \in 1..Len(googleResults) : googleResults[g] = refs[r]
                  /\ \E j \in 1..Len(scraped) :
                       /\ scraped[j].url = refs[r]
                       /\ scraped[j].content.len > 500
    /\ \A r \in 1..Len(db) :
         db[r].type = "updated" =>
             (Len(db[r].references) >= 1 /\ Len(db[r].references) <= 2)

\* C7 witness: a record was sent with a single reference, the other
\* candidate having been scraped to exactly 500 characters.
C7_Witness ==
    /\ pc = "returned"
    /\ calls[Len(calls)].kind = "save"
    /\ Len(calls[Len(calls)].arg.references) = 1
    /\ Len(scraped) = 2
    /\ \E j \in 1..2 : scraped[j].content.len = 500

\* C8: the content sent to the persistence service is the generated text
\* followed by a citation section whose lines are the surviving reference
\* URLs numbered 1..k in the order they were scraped, and the references
\* list sent is exactly those k URLs in that order; a stored record is the
\* record sent.
C8_CitationsNumberedInOrder ==
    \A c \in 1..Len(calls) :
        calls[c].kind = "save" =>
            LET sent == calls[c].arg
                urls == SurvivingUrls(scraped)
            IN
            /\ sent.content.text = calls[c - 1].outcome.content
            /\ Len(sent.content.section.lines) = Len(urls)
            /\ \A k \in 1..Len(urls) :
                 /\ sent.content.section.lines[k].number = k
                 /\ sent.content.section.lines[k].source = k
                 /\ sent.content.section.lines[k].url = urls[k]
            /\ sent.references = urls
            /\ sent.originalArticleId = article._id
            /\ calls[c].outcome = "created" => db[Len(db)] = sent

\* C8 witness: a successful run with two surviving references, whose record
\* has exactly 2 references and citation lines numbered 1 and 2.
C8_Witness ==
    /\ pc = "returned"
    /\ result.success
    /\ Len(SurvivingUrls(scraped)) = 2
    /\ Len(db[Len(db)].references) = 2
    /\ db[Len(db)].content.section.lines[2].number = 2

\* A sequence is taken from another in its order: some strictly increasing
\* choice of positions gives it.
InOrderOf(links, items) ==
    \E f \in [1..Len(links) -> 1..Len(items)] :
        /\ \A k \in 1..Len(links) : items[f[k]].link = links[k]
        /\ \A k \in 1..Len(links) - 1 : f[k] < f[k + 1]

\* C9: for every search-API response, searchGoogleForArticle returns at most
\* 2 URLs, each a string that starts with http and contains neither
\* youtube.com nor facebook.com, taken from the response's items in the
\* response's order.
C9_SearchResultFiltered ==
    output.done =>
        LET links == output.value IN
        /\ Len(links) <= 2
        /\ \A k \in 1..Len(links) :
             /\ links[k].t = "string"
             /\ links[k].scheme \in {"http", "https"}
             /\ DomainsIn(links[k].host) = {}
             /\ DomainsIn(links[k].path) = {}
        /\ InOrderOf(links, input.items)

\* C9 witness: a response of three items, the first a video link, from which
\* the two others were returned.
C9_Witness ==
    /\ output.done
    /\ Len(input.items) = 3
    /\ input.items[1].link = UrlYoutube
    /\ output.value = <<input.items[2].link, input.items[3].link>>

\* C10: every browser scrapeWithPuppeteer launched is closed when the call
\* returns or throws, whichever step failed: while the script runs, no
\* browser is open before a launch, after a return or during the saving,
\* each launch is matched by one close, and never more than one is open.
C10_BrowserAlwaysClosed ==
    /\ browserOpen >= 0
    /\ browserOpen <= 1
    /\ hpc # "exit1" =>
         /\ launched = closed + browserOpen
         /\ bpc \in {"launch", "returned", "idle"} => browserOpen = 0
         /\ hpc \in {"save", "exit0"} => browserOpen = 0

\* C10 witness: the first render launched a browser, failed in the try
\* block, and has thrown to findLastPage with the browser closed.
C10_Witness ==
    /\ hpc = "findLastPage"
    /\ bpc = "returned"
    /\ rendered.threw
    /\ launched = 1
    /\ closed = 1
    /\ browserOpen = 0

\* C11: the harvest is idempotent on url: whatever harvest runs came before,
\* no two records of the store have the same url, and a run whose listing
\* gave only links that were stored when the run started leaves the store as
\* it was.
C11_HarvestIdempotentOnUrl ==
    /\ \A j, k \in 1..Len(db) : db[j].url = db[k].url => j = k
    /\ (\A k \in 1..Len(articleLinks) : findOne(dbAtStart, articleLinks[k]))
          => db = dbAtStart

\* A second run harvested the articles of a listing all stored before, and
\* its save loop has passed over every one of them.
C11_Witness ==
    /\ run = 2
    /\ hpc = "exit0"
    /\ Len(harvested) = 2
    /\ Len(dbAtStart) >= 2
    /\ \A k \in 1..Len(articleLinks) : findOne(dbAtStart, articleLinks[k])
    /\ db = dbAtStart

\* The title and the whitespace-collapsed content a rendered article page
\* gives.
ExtractedTitle(dom) == titleLoop(dom, 1, NoText)
ExtractedContent(dom) == collapseWhitespace(harvestContentLoop(dom, 1, NoText))

\* A record with every field of an article, a title and enough content.
CompleteArticle(r) ==
    /\ DOMAIN r = {"t", "title", "content", "url", "author", "imageUrl", "type"}
    /\ r.t = "object"
    /\ r.title.len > 0
    /\ r.content.len >= MinArticleLength
    /\ r.type = "original"

\* The candidate whose render has just returned gives no article.
CandidateRejected ==
    \/ rendered.threw
    \/ ExtractedTitle(rendered.value).len = 0
    \/ ExtractedContent(rendered.value).len < MinArticleLength

\* What the return of scrapeArticleContent for a candidate does to the
\* articles array: nothing for a rejected candidate, one complete record
\* with the candidate's url, title and content otherwise.
CandidateStep ==
    (hpc = "scrapeArticleContent" /\ bpc = "returned" /\ bpc' # "returned")
    => IF CandidateRejected
       THEN harvested' = harvested
       ELSE /\ Len(harvested') = Len(harvested) + 1
            /\ SubSeq(harvested', 1, Len(harvested)) = harvested
            /\ LET r == harvested'[Len(harvested')] IN
                 /\ CompleteArticle(r)
                 /\ r.url = articleLinks[linkIdx]
                 /\ r.title = ExtractedTitle(rendered.value)
                 /\ r.content = ExtractedContent(rendered.value)

\* Every record of the articles array and of the store is complete, and the
\* store holds only what it held at the start and records of the array.
OnlyCompleteStored ==
    /\ \A k \in 1..Len(harvested) : CompleteArticle(harvested[k])
    /\ \A k \in 1..Len(db) :
          /\ CompleteArticle(db[k])
          /\ seqIncludes(dbAtStart, db[k]) \/ seqIncludes(harvested, db[k])

\* C12: a candidate whose render fails, whose title is empty or whose
\* collapsed content is under 100 characters gives null, never a record, and
\* nothing is stored for it; every stored article has a title and a content
\* of 100 characters or more.
C12_RejectedNeverPersisted == []OnlyCompleteStored /\ [][CandidateStep]_vars

\* The last candidate had a title and a content of under 100 characters: it
\* is not in the articles array, and an earlier candidate has been stored.
C12_Witness ==
    /\ hpc = "save"
    /\ ~rendered.threw
    /\ ExtractedTitle(rendered.value).len > 0
    /\ ExtractedContent(rendered.value).len > 0
    /\ ExtractedContent(rendered.value).len < MinArticleLength
    /\ Len(harvested) < Len(articleLinks)
    /\ Len(db) > Len(dbAtStart)

\* scrapeContentFromURL has returned, scrapeArticleContent has returned.
ReferenceScraped == output.done /\ input.fn = "scrapeContentFromURL"
HarvestScraped == output.done /\ input.fn = "scrapeArticleContent"

\* C13 as claimed: neither extractor returns a content of more than 4000
\* characters.
C13_BothExtractorsCapped ==
    /\ ReferenceScraped => output.value.content.len <= MaxContentLength
    /\ (HarvestScraped /\ output.value.article # NoArticle)
          => output.value.article.content.len <= MaxContentLength

\* C13, amended: scrapeContentFromURL never returns a content of more than
\* 4000 characters, a longer text being cut to 4000; scrapeArticleContent
\* returns the whole collapsed text of the element it retained, of any
\* length from 100 up.
C13_ReferenceScrapeCapped ==
    /\ ReferenceScraped =>
          /\ output.value.content.len <= MaxContentLength
          /\ (input.arg.kind = "ok"
               /\ bodyFallback(input.arg.page, output.value.cascade).clen
                      > MaxContentLength)
                => output.value.content.len = MaxContentLength
    /\ (HarvestScraped /\ output.value.article # NoArticle) =>
          /\ output.value.article.content.len = output.value.cascade.clen
          /\ output.value.article.content.len >= MinArticleLength

\* The reference scrape returned 4000 characters of a selector's text whose
\* collapsed length is 4500.
C13_Witness ==
    /\ ReferenceScraped
    /\ input.arg.kind = "ok"
    /\ output.value.cascade.clen = 4500
    /\ output.value.content.len = MaxContentLength

\* The page numbers of the anchors whose href matches the pattern.
MatchedPages(anchors) ==
    {pageNumber(anchors[k]) :
        k \in {j \in 1..Len(anchors) :
                  anchors[j].t = "string" /\ pageNumber(anchors[j]) # -1}}

\* The greatest number of a non-empty set.
Greatest(numbers) == CHOOSE m \in numbers : \A n \in numbers : n <= m

Eligible(href) ==
    href.t = "string" /\ includesBlog(href) /\ ~includesHash(href)

\* The anchors the first k selectors match, in document order per selector
\* and the selectors in list order.
RECURSIVE AnchorsUpTo(_, _)
AnchorsUpTo(dom, k) ==
    IF k = 0 THEN <<>> ELSE AnchorsUpTo(dom, k - 1) \o dom.links[k]

\* The URLs of the eligible anchors among them, repeats included.
UrlsUpTo(dom, k) ==
    LET eligible == SelectSeq(AnchorsUpTo(dom, k), Eligible)
    IN [j \in 1..Len(eligible) |-> absolute(eligible[j])]

\* The positions at which a sequence shows an element for the first time.
FirstSeen(seq) ==
    {k \in 1..Len(seq) : \A j \in 1..(k - 1) : seq[j] # seq[k]}

\* How many distinct URLs the first k selectors give.
DistinctUpTo(dom, k) == Cardinality(FirstSeen(UrlsUpTo(dom, k)))

\* C15: scrapeArticleLinks returns at most 5 URLs, none twice, each of an
\* anchor with the 'blog' marker and no '#': the first 5 distinct ones in
\* the order the selectors, taken in list order, show them; no selector is
\* queried once 5 URLs are found; a failed render gives the empty sequence.
C15_LinksCappedDistinctInOrder ==
    (output.done /\ input.fn = "scrapeArticleLinks") =>
        LET links == output.value.links
            visited == output.value.visited
        IN
        IF input.arg.threw THEN links = <<>>
        ELSE LET dom == input.arg.value
                 urls == UrlsUpTo(dom, Len(linkSelectors))
                 first == FirstSeen(urls)
             IN
             /\ Len(links) <= MaxArticleLinks
             /\ \A j, k \in 1..Len(links) : links[j] = links[k] => j = k
             /\ Len(links) = IF Cardinality(first) < MaxArticleLinks
                             THEN Cardinality(first) ELSE MaxArticleLinks
             /\ \A k \in 1..Len(links) :
                   \E p \in first :
                       /\ Cardinality({q \in first : q < p}) = k - 1
                       /\ links[k] = urls[p]
             /\ visited \in 1..Len(linkSelectors)
             /\ \A k \in 1..(visited - 1) : DistinctUpTo(dom, k) < MaxArticleLinks
             /\ visited < Len(linkSelectors)
                   => DistinctUpTo(dom, visited) >= MaxArticleLinks

\* The first selector gave 2 URLs and the second 3 more: the loop stopped
\* there, and the URL a later selector would have given is not returned.
C15_Witness ==
    /\ output.done
    /\ input.fn = "scrapeArticleLinks"
    /\ ~input.arg.threw
    /\ DistinctUpTo(input.arg.value, 1) = 2
    /\ output.value.visited = 2
    /\ Len(output.value.links) = MaxArticleLinks
    /\ DistinctUpTo(input.arg.value, Len(linkSelectors)) = 6

\* The run of main has ended.
RunEnded == pc \in {"exit0", "exit1", "done"}

\* C16: when the startup probe cannot reach the persistence service the run
\* ends at once, with no article fetched or given to processOneArticle, no
\* call made and nothing stored; and a run that ended in any other way has
\* an outcome for every article of its batch.
C16_ProbeFailureIsTheOnlyAbort ==
    /\ probe = "unreachable" =>
          /\ pc = "exit1"
          /\ articles = <<>>
          /\ processed = <<>>
          /\ outcomes = <<>>
          /\ calls = <<>>
          /\ db = dbAtStart
    /\ pc = "exit1" => probe = "unreachable"
    /\ (RunEnded /\ probe # "unreachable") =>
          /\ Len(outcomes) = Len(articles)
          /\ Len(processed) = Len(articles)

\* The probe failed on a store that holds originals: the run is over and
\* none of them was taken up.
C16_Witness ==
    /\ probe = "unreachable"
    /\ pc = "exit1"
    /\ Len(listOriginals(db)) >= 1
    /\ processed = <<>>

\* The smaller of two numbers.
Min(a, b) == IF a < b THEN a ELSE b

\* C17: the articles are processed one after the other: an article is taken
\* up only when every article before it has its outcome and the pause after
\* it is over, the calls in flight are those of the one article taken up
\* last, and after each article but the last main paused once, for 3
\* seconds, whatever the article's outcome.
C17_SequentialWithPauses ==
    InLoop =>
        /\ Len(outcomes) <= Len(processed)
        /\ Len(processed) <= Len(outcomes) + 1
        /\ InArticle <=> (Len(processed) = Len(outcomes) + 1 /\ calls # <<>>)
        /\ calls # <<>> =>
              /\ calls[1].kind = "search"
              /\ calls[1].arg = articles[Len(processed)].title
        /\ pauses = [k \in 1..Min(Len(outcomes), Len(articles) - 1) |->
                        [after |-> k - 1, ms |-> ArticlePauseMs]]
        /\ Len(processed) >= 1 => Len(pauses) >= Len(processed) - 1

\* The first article was skipped, main paused once, and the run ended after
\* the last article with no further pause.
C17_Witness ==
    /\ pc = "done"
    /\ Len(articles) >= 2
    /\ ~outcomes[1].success
    /\ Len(outcomes) = Len(articles)
    /\ Len(pauses) = Len(articles) - 1

\* The positions of the selectors that match an element, of those whose
\* element has text, and of those whose text exceeds a threshold.
Matching(matches) == {k \in 1..Len(matches) : matches[k] # NoMatch}
NonEmpty(matches) == {k \in Matching(matches) : matches[k].len > 0}
Exceeding(matches, threshold) ==
    {k \in Matching(matches) : matches[k].len > threshold}

\* The least and the greatest position of a non-empty set of positions.
First(positions) == CHOOSE m \in positions : \A n \in positions : m <= n
Last(positions) == CHOOSE m \in positions : \A n \in positions : n <= m

\* The text a cascade retains if it keeps the first text that is not empty
\* when no selector's text exceeds the threshold.
FirstNonEmptyKept(matches, threshold) ==
    IF Exceeding(matches, threshold) # {}
    THEN matches[First(Exceeding(matches, threshold))]
    ELSE IF NonEmpty(matches) # {} THEN matches[First(NonEmpty(matches))]
    ELSE NoText

\* The text a cascade retains if every match overwrites the one before.
LastMatchKept(matches, threshold) ==
    IF Exceeding(matches, threshold) # {}
    THEN matches[First(Exceeding(matches, threshold))]
    ELSE IF Matching(matches) # {} THEN matches[Last(Matching(matches))]
    ELSE NoText

\* C18 as claimed: in both extractors the cascade ends at the first selector
\* whose text exceeds the threshold, and when none does the text retained
\* is that of the first selector whose match was not empty.
C18_FirstNonEmptyRetained ==
    /\ (ReferenceScraped /\ input.arg.kind = "ok") =>
          output.value.cascade.len =
              FirstNonEmptyKept(input.arg.page.matches, ContentThreshold).len
    /\ (HarvestScraped /\ ~input.arg.threw) =>
          output.value.cascade.len =
              FirstNonEmptyKept(input.arg.value.contents,
                                HarvestContentThreshold).len

\* C18, amended: in both extractors the cascade ends at the first selector
\* whose text exceeds the threshold, and when none does the text retained
\* is that of the last selector that matched, each match replacing the one
\* before, a shorter or an empty one too.
C18_LastMatchRetained ==
    /\ (ReferenceScraped /\ input.arg.kind = "ok") =>
          output.value.cascade =
              LastMatchKept(input.arg.page.matches, ContentThreshold)
    /\ (HarvestScraped /\ ~input.arg.threw) =>
          output.value.cascade =
              LastMatchKept(input.arg.value.contents, HarvestContentThreshold)

\* The harvesting scrape found 200 characters under 'article' and 120,
\* collapsing to 100, under '.entry-content': it returned an article with
\* the 100 characters of the second.
C18_Witness ==
    /\ HarvestScraped
    /\ ~input.arg.threw
    /\ input.arg.value.contents[1] = Text("article", 200, 200)
    /\ input.arg.value.contents[2] = Text(".entry-content", 120, 100)
    /\ output.value.cascade = Text(".entry-content", 120, 100)
    /\ output.value.article # NoArticle
    /\ output.value.article.content.len = 100

\* What a step of the enhancement run does to the store: nothing, or one
\* record more, of type 'updated', made from the article being processed;
\* every record stored before stays as it was, and so do the originals.
EnhancementWrite ==
    /\ Len(db') \in {Len(db), Len(db) + 1}
    /\ SubSeq(db', 1, Len(db)) = db
    /\ Len(db') = Len(db) + 1 =>
          /\ pc = "save"
          /\ db'[Len(db')].type = "updated"
          /\ db'[Len(db')].originalArticleId = article._id
    /\ listOriginals(db') = listOriginals(db)

\* C19: the enhancement run never changes or deletes an original: its only
\* write to the store is the creation of a record of type 'updated' whose
\* originalArticleId is the id of the article being processed.
C19_OriginalsUntouched == [][EnhancementWrite]_vars

\* An enhanced record of the first original was created; the originals are
\* those the run started with.
C19_Witness ==
    /\ Len(db) > Len(dbAtStart)
    /\ db[Len(db)].type = "updated"
    /\ db[Len(db)].originalArticleId = dbAtStart[1]._id
    /\ listOriginals(db) = dbAtStart

\* The enhanced records of a store, and those made from one article.
Updated(store) == SelectSeq(store, LAMBDA r : r.type = "updated")
UpdatedOf(store, id) ==
    SelectSeq(store, LAMBDA r : r.type = "updated" /\ r.originalArticleId = id)

\* The records the current run added to the store.
CreatedThisRun == SubSeq(db, Len(dbAtStart) + 1, Len(db))

\* C20: a run of processOneArticle that succeeds creates exactly one
\* enhanced record and one that skips creates none, whatever enhanced records
\* the store already holds for the article, so the enhanced records a batch
\* created are as many as its successful counter: a second batch over the
\* same original adds a second record with the same originalArticleId.
C20_OneRecordPerSuccess ==
    InLoop =>
        /\ \A k \in 1..Len(outcomes) :
              Len(UpdatedOf(CreatedThisRun, articles[k]._id)) =
                  IF outcomes[k].success THEN 1 ELSE 0
        /\ pc = "returned" =>
              Len(UpdatedOf(CreatedThisRun, article._id)) =
                  IF result.success THEN 1 ELSE 0
        /\ pc \in {"search", "scrape", "enhance", "save"} =>
              Len(UpdatedOf(CreatedThisRun, article._id)) = 0
        /\ Len(Updated(CreatedThisRun)) =
              results.successful
                  + (IF pc = "returned" /\ result.success THEN 1 ELSE 0)
        /\ \A k \in 1..Len(articles) :
              Len(UpdatedOf(db, articles[k]._id)) =
                  Len(UpdatedOf(dbAtStart, articles[k]._id))
                      + Len(UpdatedOf(CreatedThisRun, articles[k]._id))

\* The second batch over the same original has ended with one success: the
\* store holds two enhanced records of that original, one from each batch.
C20_Witness ==
    /\ run = 2
    /\ pc = "done"
    /\ results.successful = 1
    /\ Len(UpdatedOf(dbAtStart, articles[1]._id)) = 1
    /\ Len(UpdatedOf(db, articles[1]._id)) = 2

\* The current article's search call ended in a search-API error.
SearchFailed == InArticle /\ calls[1].outcome = ApiError

\* After a failed search the article is over at the search stage.
SkippedAtSearch ==
    SearchFailed =>
        /\ googleResults = <<>>
        /\ pc = "returned"
        /\ result = Skip("No Google results")
        /\ CallKinds = <<"search">>
        /\ scraped = <<>>
        /\ references = <<>>
        /\ enhanced = Unassigned

\* The step main takes from an article whose search failed: the article is
\* counted as failed, nothing is stored, and the loop goes on to the next
\* article while one remains.
ContinuesAfterSearchError ==
    SearchFailed =>
        /\ i' = i + 1
        /\ db' = db
        /\ results'.failed = results.failed + 1
        /\ results'.successful = results.successful
        /\ outcomes' = Append(outcomes, Skip("No Google results"))
        /\ pc' = IF i + 1 < Len(articles) THEN "search" ELSE "summary"

\* C21: on a search-API error searchGoogleForArticle returns the empty
\* sequence and does not throw; the article is then skipped at the search
\* stage with the 'No Google results' reason, the search being its only
\* call (no scrape, no generation, no save), and the batch goes on with the
\* next article.
C21_SearchErrorFailsSoft ==
    /\ searchGoogleForArticle(ApiError) = Returned(<<>>)
    /\ []SkippedAtSearch
    /\ [][ContinuesAfterSearchError]_vars

\* C21 witness: the second article's search ended in an API error after the
\* first article was skipped, and nothing was stored.
C21_Witness ==
    /\ pc = "returned"
    /\ i = 1
    /\ calls = <<Call("search", article.title, ApiError)>>
    /\ googleResults = <<>>
    /\ result.reason = "No Google results"
    /\ Len(processed) = 2
    /\ db = dbAtStart

\* enhanceArticleWithAI gave the current article null or the empty string.
NothingGenerated ==
    /\ InArticle
    /\ enhanced \in {Null, Generated(0)}

\* The text a record's content starts with, before its citation section.
HasGeneratedText(content) ==
    /\ content.text.t = "string"
    /\ content.text.len > 0

\* C22: an empty generated text is handled as a failed generation: whenever
\* enhanceArticleWithAI gave null or the empty string the article is skipped
\* with 'AI failed' right after the generation call and no save is called;
\* so every save is called with a non-empty generated text before the
\* citation section, and so is every enhanced record in the store.
C22_EmptyTextNeverSaved ==
    /\ NothingGenerated =>
         /\ pc = "returned"
         /\ result = Skip("AI failed")
         /\ calls[Len(calls)].kind = "generate"
         /\ CallCount("save") = 0
    /\ \A k \in 1..Len(calls) :
         calls[k].kind = "save" => HasGeneratedText(calls[k].arg.content)
    /\ \A r \in 1..Len(db) :
         db[r].type = "updated" => HasGeneratedText(db[r].content)

\* C22 witness: the generation call of the second article answered with the
\* empty string and the article is skipped, after the first article's
\* enhanced record was stored.
C22_Witness ==
    /\ pc = "returned"
    /\ i = 1
    /\ calls[Len(calls)] =
         Call("generate",
              aiPrompt(article.title, article.content, references),
              GenResponse(1, Generated(0)))
    /\ enhanced = Generated(0)
    /\ result.reason = "AI failed"
    /\ \E r \in 1..Len(db) :
         db[r].type = "updated" /\ db[r].originalArticleId = 1

====
